---------------------------- MODULE Spec2Model ----------------------------
(***************************************************************************)
(* Model of the two Streamlit scripts of the battery-simulation repository *)
(*                                                                         *)
(*   src/battery_dashboard.py  the monitoring dashboard: a session history *)
(*                             of samples, alerts, summary, graphs         *)
(*   src/battery2.py           the task configuration and the 100-tick     *)
(*                             "Start Simulation" handler                  *)
(*                                                                         *)
(* A Streamlit script is re-executed from top to bottom on every user      *)
(* interaction; st.session_state and the keyed widgets' values survive     *)
(* between runs, everything else is rebuilt.  One action of the dashboard  *)
(* model is one complete script run triggered by one interaction.          *)
(*                                                                         *)
(* Units: temperatures are in tenths of a degree Celsius, voltages and     *)
(* currents in hundredths of a volt / ampere, so that 39.9, 40.0 and 3.5   *)
(* are the integers 399, 400 and 350.                                      *)
(***************************************************************************)
EXTENDS Integers, Sequences, FiniteSets, TLC

VARIABLES
    \* ---- battery_dashboard.py: st.session_state ----
    history,        \* st.session_state.history
    max_history,    \* st.session_state.max_history (key of the Settings widget)
    autoupdate,     \* st.session_state.autoupdate
    \* ---- battery_dashboard.py: widget values of the current run ----
    num_cells,      \* sidebar slider "Number of Cells"
    temp_threshold, \* sidebar number_input, whole degrees Celsius
    volt_threshold, \* sidebar number_input, hundredths of a volt
    voltages,       \* the list built at lines 100-108 from the widgets v_i
    temperatures,   \* the list built at lines 100-108 from the widgets t_i
    \* ---- battery_dashboard.py: what the run did ----
    did_append,     \* the block of lines 110-120 was executed in this run
    alert_msgs,     \* the list built at lines 130-135
    summary,        \* the three averages of lines 166-170, as <<sum, count>>
    graphs_error,   \* line 183 raised IndexError in this run
    clock,          \* number of datetime.now() readings taken so far
    since_clear,    \* history variable: samples appended since the last clear
    \* ---- battery2.py ----
    num_tasks,      \* slider "Number of tasks"
    task_list,      \* the list built at lines 90-113
    pc,             \* position of the Start Simulation handler
    t,              \* loop variable of line 123
    times,          \* line 118 / 131
    sim_voltages,   \* "voltages" of battery2.py, line 118 / 128
    sim_currents,   \* "currents" of battery2.py, line 118 / 129
    temps,          \* line 118 / 130
    df,             \* the exported DataFrame of lines 153-158, row by row
    task_log        \* log entries written for executed tasks

dash_vars == <<history, max_history, autoupdate, num_cells, temp_threshold,
               volt_threshold, voltages, temperatures, did_append,
               alert_msgs, summary, graphs_error, clock, since_clear>>
sim_vars  == <<num_tasks, task_list, pc, t, times, sim_voltages, sim_currents,
               temps, df, task_log>>
vars      == <<dash_vars, sim_vars>>

---------------------------------------------------------------------------
(* Bounds of the model.  They stand for ranges of the program that are too *)
(* large to enumerate; the program's own values are given with each.       *)

\* least value of "Max History Length" (10 in the source, line 193)
MaxHistoryLo == 2
\* initial st.session_state.max_history (100 in the source, line 80); every
\* other capacity is one change of "Max History Length" away
MaxHistoryDefault == 2
\* greatest value of "Max History Length" (1000 in the source, line 193)
MaxHistoryHi == 4
\* greatest value of the "Number of Cells" slider (20 in the source, line 92)
MaxCells == 2
\* initial value of the "Number of Cells" slider (8 in the source, line 92)
NumCellsDefault == 1
\* number of samples ever appended in one session (unbounded in the source)
MaxClock == 4

\* greatest cell count of the alert evaluation's inputs (20 in the source)
MaxAlertCells == 3
\* number of ticks of one simulation (100 in the source, battery2.py line 123)
TickCount == 3

Min(a, b) == IF a < b THEN a ELSE b

---------------------------------------------------------------------------
(* Widget defaults and the values the user may enter.                      *)

TempThresholdDefault == 40
VoltThresholdDefault == 350
VoltageDefault       == 370
CurrentDefault       == 0
TempDefault          == 250
CapacityDefault      == 100
ModeDefault          == "Idle"

VoltThresholds == {VoltThresholdDefault, 380}
TempInputs     == {TempDefault, 410}

\* The user edits the temperature of Cell 1 and the voltage threshold.  The
\* voltages, currents, capacities and modes are built by the same loop (lines
\* 102-108) and stay at their defaults, and so does the temperature
\* threshold: a cell overheats by its temperature being raised and is low on
\* voltage by the voltage threshold being raised.
Currents(n)   == [i \in 1..n |-> CurrentDefault]
Capacities(n) == [i \in 1..n |-> CapacityDefault]
Modes(n)      == [i \in 1..n |-> ModeDefault]

---------------------------------------------------------------------------
(* battery_dashboard.py: the pure parts of one script run.                 *)

\* MakeSample with two of the lists stored under each other's key
MakeSampleSwapped(now, vs, cs, ts, caps, ms) ==
    [timestamp    |-> now,
     voltages     |-> ts,
     currents     |-> cs,
     temperatures |-> vs,
     capacities   |-> caps,
     modes        |-> ms]

\* the dict literal of lines 111-118; "now" is the reading of datetime.now()
MakeSample(now, vs, cs, ts, caps, ms) ==
    [timestamp    |-> now,
     voltages     |-> vs,
     currents     |-> cs,
     temperatures |-> ts,
     capacities   |-> caps,
     modes        |-> ms]

\* Truncate with the slice one too long: h[-(mh+1):]
TruncateOneMore(h, mh) ==
    IF Len(h) > mh THEN SubSeq(h, Len(h) - mh, Len(h)) ELSE h

\* Truncate with the slice taken from the wrong end: h[:mh]
TruncateHead(h, mh) ==
    IF Len(h) > mh THEN SubSeq(h, 1, mh) ELSE h

\* lines 119-120: h[-mh:] when len(h) > mh
Truncate(h, mh) ==
    IF Len(h) > mh THEN SubSeq(h, Len(h) - mh + 1, Len(h)) ELSE h

\* AppendSample without the .copy() calls on lists that live across runs:
\* every stored sample shares the lists of the newest one
AppendSampleShared(h, s, mh) ==
    Truncate(Append([k \in 1..Len(h) |->
                        [h[k] EXCEPT !.voltages     = s.voltages,
                                     !.currents     = s.currents,
                                     !.temperatures = s.temperatures,
                                     !.capacities   = s.capacities,
                                     !.modes        = s.modes]], s), mh)

\* lines 111-120: append, then cut to the capacity
AppendSample(h, s, mh) == Truncate(Append(h, s), mh)

\* line 110: the condition under which the run appends
ShouldAppend(button, au) == button \/ au

\* Overheats with >= for >
OverheatsOrEqual(temp, tt) == temp >= tt * 10

\* line 132: temperatures[i] > temp_threshold (tenths against whole degrees)
Overheats(temp, tt) == temp > tt * 10

\* line 134: voltages[i] < volt_threshold
LowVoltage(volt, vt) == volt < vt

\* lines 130-135: the loop over range(num_cells); cell numbers are i+1.
\* An alert is the triple the message is formatted from.
RECURSIVE AlertLoop(_, _, _, _, _, _)
AlertLoop(i, n, ts, vs, tt, vt) ==
    IF i > n THEN <<>>
    ELSE (IF Overheats(ts[i], tt)
            THEN <<[kind |-> "Overheating", cell |-> i, value |-> ts[i]]>>
            ELSE <<>>)
         \o (IF LowVoltage(vs[i], vt)
               THEN <<[kind |-> "Low Voltage", cell |-> i, value |-> vs[i]]>>
               ELSE <<>>)
         \o AlertLoop(i + 1, n, ts, vs, tt, vt)

AlertMsgs(n, ts, vs, tt, vt) == AlertLoop(1, n, ts, vs, tt, vt)

\* sum(...) of a list
RECURSIVE Sum(_)
Sum(s) == IF s = <<>> THEN 0 ELSE Head(s) + Sum(Tail(s))

\* lines 166-170: sum(x)/num_cells, kept as the pair <<sum, num_cells>>
Summary(n, vs, ts, caps) ==
    [avg_voltage  |-> <<Sum(vs), n>>,
     avg_temp     |-> <<Sum(ts), n>>,
     avg_capacity |-> <<Sum(caps), n>>]

\* lines 175-183: entry[metric][i] for i in range(num_cells) over the whole
\* history raises IndexError when an entry holds fewer than num_cells values
GraphsIndexError(h, n) ==
    /\ h # <<>>
    /\ \E k \in 1..Len(h) :
          \/ Len(h[k].voltages) < n
          \/ Len(h[k].currents) < n
          \/ Len(h[k].temperatures) < n
          \/ Len(h[k].capacities) < n

\* the widget list after the cell count changed to n: a widget that was not
\* rendered loses its state and comes back with its default (lines 104-108)
Resize(xs, n, default) ==
    [i \in 1..n |-> IF i <= Len(xs) THEN xs[i] ELSE default]

---------------------------------------------------------------------------
(* battery_dashboard.py: one script run, lines 75-196.                     *)
(* The arguments are the widget values of the run (after the interaction   *)
(* that triggered it), whether "Update Now" was pressed and whether        *)
(* "Clear History" was pressed.                                            *)

Run(n, tt, vt, au, vs, ts, mh, button, clear) ==
    LET doAppend == ShouldAppend(button, au)
        sample   == MakeSample(clock + 1, vs, Currents(n), ts,
                               Capacities(n), Modes(n))
        h1       == IF doAppend THEN AppendSample(history, sample, mh)
                                ELSE history
        err      == GraphsIndexError(h1, n)
        \* an exception in the Graphs tab ends the run before line 191
        cleared  == clear /\ ~err
    IN  /\ doAppend => clock < MaxClock
        /\ num_cells'      = n
        /\ temp_threshold' = tt
        /\ volt_threshold' = vt
        /\ autoupdate'     = au
        /\ voltages'       = vs
        /\ temperatures'   = ts
        /\ max_history'    = mh
        /\ did_append'     = doAppend
        /\ clock'          = IF doAppend THEN clock + 1 ELSE clock
        /\ alert_msgs'     = AlertMsgs(n, ts, vs, tt, vt)
        /\ summary'        = Summary(n, vs, ts, Capacities(n))
        /\ graphs_error'   = err
        /\ history'        = IF cleared THEN <<>> ELSE h1
        /\ since_clear'    = IF cleared THEN 0
                             ELSE IF doAppend THEN since_clear + 1
                             ELSE since_clear
        /\ UNCHANGED sim_vars

\* a run with the widgets as they are
Same(button, clear) ==
    Run(num_cells, temp_threshold, volt_threshold, autoupdate,
        voltages, temperatures, max_history, button, clear)

\* line 110: the sidebar button
UpdateNow == Same(TRUE, FALSE)

\* line 98: st_autorefresh reruns the script while the box is ticked
AutoRefreshTick == autoupdate /\ Same(FALSE, FALSE)

\* line 95: the Auto Refresh checkbox
ToggleAutoRefresh ==
    Run(num_cells, temp_threshold, volt_threshold,
        ~autoupdate, voltages, temperatures, max_history, FALSE, FALSE)

\* line 92
SetNumCells ==
    \E n \in 1..MaxCells :
       /\ n # num_cells
       /\ Run(n, temp_threshold, volt_threshold, autoupdate,
              Resize(voltages, n, VoltageDefault),
              Resize(temperatures, n, TempDefault), max_history, FALSE, FALSE)

\* line 94
SetVoltThreshold ==
    \E vt \in VoltThresholds :
       /\ vt # volt_threshold
       /\ Run(num_cells, temp_threshold, vt, autoupdate,
              voltages, temperatures, max_history, FALSE, FALSE)

\* line 106, for the widget t_0 of Cell 1
SetTemp ==
    \E x \in TempInputs :
       /\ x # temperatures[1]
       /\ Run(num_cells, temp_threshold, volt_threshold,
              autoupdate, voltages, [temperatures EXCEPT ![1] = x],
              max_history, FALSE, FALSE)

\* line 193: the widget's key is max_history, so the new value is in
\* st.session_state from the start of the run.  The Settings tab exists only
\* when the previous run reached it.
SetMaxHistory ==
    /\ ~graphs_error
    /\ \E mh \in MaxHistoryLo..MaxHistoryHi :
          /\ mh # max_history
          /\ Run(num_cells, temp_threshold, volt_threshold,
                 autoupdate, voltages, temperatures, mh, FALSE, FALSE)

\* lines 194-196
ClearHistory == ~graphs_error /\ Same(FALSE, TRUE)

\* the state after the first run of a new session (lines 75-80 and the
\* widgets' defaults)
DashInit ==
    /\ history        = <<>>
    /\ max_history    = MaxHistoryDefault
    /\ autoupdate     = FALSE
    /\ num_cells      = NumCellsDefault
    /\ temp_threshold = TempThresholdDefault
    /\ volt_threshold = VoltThresholdDefault
    /\ voltages       = [i \in 1..NumCellsDefault |-> VoltageDefault]
    /\ temperatures   = [i \in 1..NumCellsDefault |-> TempDefault]
    /\ alert_msgs     = <<>>
    /\ summary        = Summary(NumCellsDefault,
                                [i \in 1..NumCellsDefault |-> VoltageDefault],
                                [i \in 1..NumCellsDefault |-> TempDefault],
                                Capacities(NumCellsDefault))
    /\ did_append     = FALSE
    /\ graphs_error   = FALSE
    /\ clock          = 0
    /\ since_clear    = 0

---------------------------------------------------------------------------
(* battery2.py: the task configuration, lines 88-113.                      *)

\* st.slider("Number of tasks", 1, 5, 2)
MinTasks        == 1
MaxTasks        == 5
NumTasksDefault == 2
\* st.slider("Duration (s)", 5, 60, 10)
DurationDefault == 10

task_types == <<"CC_CV", "IDLE", "CC_CD">>
Durations  == {DurationDefault, 60}

\* lines 95-111: the dict of one task; text and number inputs keep their
\* defaults ("" and 0.0), the duration is what the slider of that type holds
Task(task_type, time_seconds) ==
    CASE task_type = "CC_CV" ->
           [task_type |-> "CC_CV", cc_cp |-> "", cv_voltage |-> 0,
            current |-> 0, capacity |-> 0, time_seconds |-> time_seconds]
      [] task_type = "IDLE" ->
           [task_type |-> "IDLE", time_seconds |-> time_seconds]
      [] task_type = "CC_CD" ->
           [task_type |-> "CC_CD", cc_cp |-> "", voltage |-> 0,
            capacity |-> 0, time_seconds |-> time_seconds]

\* a selectbox shows its first option, a slider its default
DefaultTask == Task(task_types[1], DurationDefault)

\* a rerun of the script that does not press the button: lines 116-164 are
\* skipped, the lists and the export of an earlier run are gone
Rerun(n, tasks) ==
    /\ pc # "running"
    /\ num_tasks'    = n
    /\ task_list'    = tasks
    /\ pc'           = "idle"
    /\ t'            = 0
    /\ times'        = <<>>
    /\ sim_voltages' = <<>>
    /\ sim_currents' = <<>>
    /\ temps'        = <<>>
    /\ df'           = <<>>
    /\ UNCHANGED task_log
    /\ UNCHANGED dash_vars

\* line 89; the widgets of a task that is no longer shown lose their state
SetNumTasks ==
    \E n \in MinTasks..MaxTasks :
       /\ n # num_tasks
       /\ Rerun(n, [i \in 1..n |-> IF i <= num_tasks THEN task_list[i]
                                                     ELSE DefaultTask])

\* line 94; the duration slider of the new type starts at its default
SetTaskType ==
    \E i \in 1..num_tasks, k \in 1..Len(task_types) :
       /\ task_types[k] # task_list[i].task_type
       /\ Rerun(num_tasks,
                [task_list EXCEPT ![i] = Task(task_types[k], DurationDefault)])

\* lines 102, 105, 111
SetDuration ==
    \E i \in 1..num_tasks, d \in Durations :
       /\ d # task_list[i].time_seconds
       /\ Rerun(num_tasks,
                [task_list EXCEPT ![i] = Task(task_list[i].task_type, d)])

---------------------------------------------------------------------------
(* battery2.py: the Start Simulation handler, lines 116-164.               *)

\* the rounded random readings of lines 124-126 (two of the possible draws)
SimReadings ==
    {[voltage |-> 300, current |-> 50,  temp |-> 250],
     [voltage |-> 420, current |-> 500, temp |-> 450]}

\* FreshList with the lists kept across runs
KeptList(old) == old

\* line 118: every list starts empty, whatever an earlier run left
FreshList(old) == <<>>

\* line 123: range(100)
LoopDone(i) == i >= TickCount

\* lines 153-158: one row per list position
DataFrame(ts, vs, cs, tps) ==
    [k \in 1..Len(ts) |->
        [time |-> ts[k], voltage |-> vs[k], current |-> cs[k],
         temperature |-> tps[k]]]

\* lines 116-121: the button is pressed; the script reruns and enters the
\* handler
StartSimulation ==
    /\ pc # "running"
    /\ pc'           = "running"
    /\ t'            = 0
    /\ times'        = FreshList(times)
    /\ sim_voltages' = FreshList(sim_voltages)
    /\ sim_currents' = FreshList(sim_currents)
    /\ temps'        = FreshList(temps)
    /\ df'           = <<>>
    /\ UNCHANGED <<num_tasks, task_list, task_log>>
    /\ UNCHANGED dash_vars

\* lines 123-149: one iteration of the loop
Tick ==
    /\ pc = "running"
    /\ ~LoopDone(t)
    /\ \E r \in SimReadings :
          /\ sim_voltages' = Append(sim_voltages, r.voltage)
          /\ sim_currents' = Append(sim_currents, r.current)
          /\ temps'        = Append(temps, r.temp)
    /\ times' = Append(times, t)
    /\ t'     = t + 1
    /\ UNCHANGED <<num_tasks, task_list, pc, df, task_log>>
    /\ UNCHANGED dash_vars

\* lines 151-164: the loop is over, the export is built.  Nothing in the
\* handler reads task_list or writes a task log.
Finish ==
    /\ pc = "running"
    /\ LoopDone(t)
    /\ pc' = "done"
    /\ df' = DataFrame(times, sim_voltages, sim_currents, temps)
    /\ UNCHANGED <<num_tasks, task_list, t, times, sim_voltages,
                   sim_currents, temps, task_log>>
    /\ UNCHANGED dash_vars

\* the state after the first run of a new session
SimInit ==
    /\ num_tasks    = NumTasksDefault
    /\ task_list    = [i \in 1..NumTasksDefault |-> DefaultTask]
    /\ pc           = "idle"
    /\ t            = 0
    /\ times        = <<>>
    /\ sim_voltages = <<>>
    /\ sim_currents = <<>>
    /\ temps        = <<>>
    /\ df           = <<>>
    /\ task_log     = <<>>

SimNext ==
    \/ SetNumTasks
    \/ SetTaskType
    \/ SetDuration
    \/ StartSimulation
    \/ Tick
    \/ Finish

---------------------------------------------------------------------------
(* battery_dashboard.py with the alert evaluation's inputs enumerated: the *)
(* same script runs, with up to MaxAlertCells cells and temperatures,      *)
(* voltages and thresholds on both sides of and on the boundary.           *)

AlertTempInputs      == {TempDefault, 399, 400, 410}
AlertVoltInputs      == {VoltageDefault, 349, 350}
AlertTempThresholds  == {TempThresholdDefault, 41}
AlertVoltThresholds  == {VoltThresholdDefault, 349}

EditNumCells ==
    \E n \in 1..MaxAlertCells :
       /\ n # num_cells
       /\ Run(n, temp_threshold, volt_threshold, autoupdate,
              Resize(voltages, n, VoltageDefault),
              Resize(temperatures, n, TempDefault), max_history, FALSE, FALSE)

EditTemp ==
    \E i \in 1..num_cells, x \in AlertTempInputs :
       /\ x # temperatures[i]
       /\ Run(num_cells, temp_threshold, volt_threshold, autoupdate,
              voltages, [temperatures EXCEPT ![i] = x], max_history,
              FALSE, FALSE)

EditVoltage ==
    \E i \in 1..num_cells, v \in AlertVoltInputs :
       /\ v # voltages[i]
       /\ Run(num_cells, temp_threshold, volt_threshold, autoupdate,
              [voltages EXCEPT ![i] = v], temperatures, max_history,
              FALSE, FALSE)

EditTempThreshold ==
    \E tt \in AlertTempThresholds :
       /\ tt # temp_threshold
       /\ Run(num_cells, tt, volt_threshold, autoupdate, voltages,
              temperatures, max_history, FALSE, FALSE)

EditVoltThreshold ==
    \E vt \in AlertVoltThresholds :
       /\ vt # volt_threshold
       /\ Run(num_cells, temp_threshold, vt, autoupdate, voltages,
              temperatures, max_history, FALSE, FALSE)

AlertNext ==
    \/ EditNumCells
    \/ EditTemp
    \/ EditVoltage
    \/ EditTempThreshold
    \/ EditVoltThreshold

---------------------------------------------------------------------------
Init == DashInit /\ SimInit

Next ==
    \/ UpdateNow
    \/ AutoRefreshTick
    \/ ToggleAutoRefresh
    \/ SetVoltThreshold
    \/ SetTemp
    \/ SetNumCells
    \/ SetMaxHistory
    \/ ClearHistory

\* the dashboard session
Spec == Init /\ [][Next]_vars

\* the dashboard with the alert inputs enumerated
AlertSpec == Init /\ [][AlertNext]_vars

\* the simulator session
SimSpec == Init /\ [][SimNext]_vars

---------------------------------------------------------------------------
(* The history store: capacity and eviction.                               *)

\* the run that produced the current state appended a sample and did not
\* clear the history afterwards
AppendedAndKept == did_append /\ history # <<>>

\* the timestamps of the stored samples
Stamps(h) == [k \in 1..Len(h) |-> h[k].timestamp]

\* the run of n consecutive clock readings that ends with the reading now
LatestStamps(now, n) == [k \in 1..n |-> now - n + k]

\* C1: immediately after each append the history holds at most max_history
\* samples, max_history being the value in force during that run.
C1_AppendRespectsCapacity ==
    did_append => Len(history) <= max_history

\* C1 witness: an append that evicted: the history is full, holds the sample
\* just taken, and more samples were appended since the last clear than it
\* holds
C1_Witness ==
    /\ AppendedAndKept
    /\ Len(history) = max_history
    /\ since_clear > Len(history)
    /\ history[Len(history)].timestamp = clock

\* C2: the history never holds more than max_history samples, in every
\* state, a change of the capacity included.
C2_CapacityAtAllTimes ==
    Len(history) <= max_history

\* C3 as stated: the stored sequence is always the most recent
\* min(k, max_history) samples appended since the last clear, in order.
C3_AlwaysLatestMinKMax ==
    Stamps(history) = LatestStamps(clock, Min(since_clear, max_history))

\* C3 as amended: an append made while the history holds exactly max_history
\* samples drops the oldest one and adds the new one at the end; after any
\* append the history is the last min(previous length + 1, max_history)
\* entries of the previous history followed by the new sample; and the
\* stored sequence is always a most recent run of the samples appended since
\* the last clear, in insertion order.
C3_FifoEviction ==
    [][ /\ Stamps(history') = LatestStamps(clock', Len(history'))
        /\ Len(history') <= since_clear'
        /\ (did_append' /\ history' # <<>>) =>
              LET new  == history'[Len(history')]
                  full == Append(history, new)
                  keep == Min(Len(history) + 1, max_history')
              IN  /\ new.timestamp = clock'
                  /\ clock' = clock + 1
                  /\ Len(history') = keep
                  /\ \A k \in 1..keep :
                        history'[k] = full[Len(full) - keep + k]
                  /\ Len(history) = max_history' =>
                        history' = Tail(history) \o <<new>>
      ]_vars

\* C3 witness: the scenario of the claim: capacity 3, four appends A, B, C,
\* D since the last clear, the store holds B, C, D
C3_Witness ==
    /\ AppendedAndKept
    /\ max_history = 3
    /\ since_clear = 4
    /\ Stamps(history) = <<clock - 2, clock - 1, clock>>

---------------------------------------------------------------------------
(* The alert evaluation.                                                   *)

\* position of an alert in the order "cells ascending, temperature check
\* before voltage check"
AlertRank(a) == 2 * a.cell + (IF a.kind = "Overheating" THEN 0 ELSE 1)

\* C4: the alert list holds, for the cells 1..num_cells in ascending order,
\* an overheating alert for a cell iff its temperature is strictly above the
\* temperature threshold, then a low-voltage alert iff its voltage is
\* strictly below the voltage threshold; the two checks are independent and
\* nothing else is in the list.
C4_AlertsExact ==
    /\ \A i \in 1..num_cells :
          /\ (\E k \in 1..Len(alert_msgs) :
                 alert_msgs[k] = [kind |-> "Overheating", cell |-> i,
                                  value |-> temperatures[i]])
             <=> temperatures[i] > 10 * temp_threshold
          /\ (\E k \in 1..Len(alert_msgs) :
                 alert_msgs[k] = [kind |-> "Low Voltage", cell |-> i,
                                  value |-> voltages[i]])
             <=> voltages[i] < volt_threshold
    /\ \A k \in 1..Len(alert_msgs) :
          /\ alert_msgs[k].cell \in 1..num_cells
          /\ alert_msgs[k].kind \in {"Overheating", "Low Voltage"}
          /\ alert_msgs[k].value =
                IF alert_msgs[k].kind = "Overheating"
                  THEN temperatures[alert_msgs[k].cell]
                  ELSE voltages[alert_msgs[k].cell]
    /\ \A j, k \in 1..Len(alert_msgs) :
          j < k => AlertRank(alert_msgs[j]) < AlertRank(alert_msgs[k])

\* C4 witness: the scenario of the claim: temperatures 41.0, 39.9, 40.0 with
\* threshold 40 give exactly one alert, overheating, for cell 1
C4_Witness ==
    /\ num_cells = 3
    /\ temp_threshold = 40
    /\ temperatures = <<410, 399, 400>>
    /\ voltages = <<370, 370, 370>>
    /\ alert_msgs = <<[kind |-> "Overheating", cell |-> 1, value |-> 410]>>

---------------------------------------------------------------------------
(* The task list and the simulation run of battery2.py.                    *)

\* C5: when the run is over, the log holds exactly one entry per configured
\* task, in list order, each ending no earlier than it started and no later
\* than the next one starts.
C5_TaskLogPerTask ==
    pc = "done" =>
       /\ Len(task_log) = Len(task_list)
       /\ \A i \in 1..Len(task_log) :
             /\ task_log[i].type = task_list[i].task_type
             /\ task_log[i].end >= task_log[i].start
             /\ i < Len(task_log) => task_log[i].end <= task_log[i + 1].start

\* C7: a run makes exactly TickCount ticks: while it runs and when it is
\* over the four series have one entry per tick made, the tick indices are
\* 0, 1, 2, ... in order, the loop can always go on until it is over, and the
\* export of a finished run holds the TickCount readings of this run only.
C7_RunIsTickCountTicks ==
    /\ t \in 0..TickCount
    /\ Len(times) = t
    /\ Len(sim_voltages) = t
    /\ Len(sim_currents) = t
    /\ Len(temps) = t
    /\ \A k \in 1..t : times[k] = k - 1
    /\ pc = "running" => ENABLED (Tick \/ Finish)
    /\ pc = "done" =>
          /\ t = TickCount
          /\ Len(df) = TickCount
          /\ \A k \in 1..TickCount :
                df[k] = [time |-> k - 1, voltage |-> sim_voltages[k],
                         current |-> sim_currents[k],
                         temperature |-> temps[k]]
    /\ pc = "idle" => t = 0 /\ df = <<>>

\* C7 witness: a finished run with its export
C7_Witness ==
    /\ pc = "done"
    /\ Len(df) = TickCount
    /\ df[1].time = 0
    /\ df[TickCount].time = TickCount - 1

---------------------------------------------------------------------------
(* What triggers an append, what a run leaves alone, what the tabs read.   *)

\* C6: Update Now and the auto-refresh tick append exactly one sample, and
\* no other interaction (a threshold, a cell input, the cell count, Max
\* History Length, Clear History) appends one, Auto Refresh on or off.
C6_AppendOnlyOnTrigger ==
    [][ /\ (UpdateNow \/ AutoRefreshTick) => clock' = clock + 1
        /\ (SetNumCells \/ SetVoltThreshold \/ SetTemp \/ SetMaxHistory
              \/ ClearHistory) => clock' = clock
      ]_vars

ShowsLatestSample ==
    LET last == history[Len(history)]
        n    == Len(last.voltages)
    IN  /\ voltages = last.voltages
        /\ temperatures = last.temperatures
        /\ Capacities(num_cells) = last.capacities
        /\ alert_msgs = AlertMsgs(n, last.temperatures, last.voltages,
                                  temp_threshold, volt_threshold)
        /\ summary = Summary(n, last.voltages, last.temperatures,
                             last.capacities)

C10_GraphsNeverFail ==
    /\ ~graphs_error
    /\ \A k \in 1..Len(history) :
          /\ Len(history[k].voltages) >= num_cells
          /\ Len(history[k].currents) >= num_cells
          /\ Len(history[k].temperatures) >= num_cells
          /\ Len(history[k].capacities) >= num_cells

=============================================================================
